---- MODULE Spec2Model ----
(***************************************************************************)
(* Model of the discrete-event simulation kernel of pydesim                *)
(* (src/pydesim/simulator.py): the _Event record and its ordering, the     *)
(* binary heap kept by heapq, Kernel.add_event / remove_event /            *)
(* _next_event / setup / run, and the Simulator pass-throughs schedule and *)
(* cancel, driven as simulate() drives them: setup, then run.              *)
(*                                                                         *)
(* Two smaller parts stand beside it: Model with its two managers, and    *)
(* simulate() over a list of parameter bags.  Each part has its own        *)
(* next-state relation and leaves the variables of the others alone.       *)
(*                                                                         *)
(* User code (initialize, init, the handlers, fin) is any sequence of      *)
(* sim.schedule and sim.cancel calls.  Every iteration of a loop of the    *)
(* kernel is one step, so invariants are checked inside the loops too.     *)
(***************************************************************************)
EXTENDS Integers, Sequences, FiniteSets, TLC

\* ------------------------------------------------------------- bounds
\* Event ids that one run may allocate (0 .. MaxEvents-1).
MaxEvents == 3
\* The positive delay passed to schedule.
MaxDelay == 1
\* The positive stime_limit passed to setup (the other choice is 0 or
\* omitted, which installs no predicate).
MaxLimit == 1

\* The delay argument of schedule: a negative one (rejected), zero (an
\* event at the current time) and a positive one.
Delays == {-1, 0, MaxDelay}
Limits == {0, MaxLimit}
\* The handler argument of schedule: a callable, or the default None.
Handlers == {"fn", "None"}
\* Ids passed to cancel: every allocated id and one that never is.
CancelIds == 0 .. MaxEvents

VARIABLES
    events,           \* the _Event objects created so far, by id
    queue,            \* Kernel.__queue: heap array of event references
    stime,            \* Kernel.__stime
    evids,            \* Kernel.__evids: id -> event reference
    next_evid,        \* Kernel.__next_evid: the next value of the counter
    num_events,       \* Kernel.__num_events
    queue_size,       \* Kernel.__queue_size
    stop_predicates,  \* Kernel.__stop_predicates: the limits of the lambdas
    pc,               \* position of the thread in simulate / Kernel.run
    cur,              \* local `event` of Kernel.run (-1: unset)
    exc,              \* the exception that left run ("none": none did)
    last,             \* the latest call of user code into the kernel
    stopped,          \* the loop was left by `break`
    invoked,          \* history: handler entries, [id, at] in order
    popped,           \* history: ids returned by _next_event, in order
    cancelCalled,     \* history: ids cancelled before they were popped
    fin,              \* the `fin` argument of run ("unread" until line 179)
    fin_calls,        \* history: how many times run called fin
    models,           \* the Model objects created so far, by id
    sim_schedule,     \* the schedule calls a model made on its simulator
    raised,           \* the exception of the latest model-graph operation
    nops,             \* model-graph operations performed so far
    spc,              \* position of the thread in simulate's params loop
    data,             \* the `data` argument of simulate ("unread" at first)
    dataobjs,         \* the model-data objects, by id
    kernels,          \* the Kernel objects of the sweep, by id
    results,          \* local `results` of simulate: the Simulator objects
    sim               \* local `sim` of simulate's loop

kernel == <<events, queue, stime, evids, next_evid, num_events, queue_size,
            stop_predicates>>
\* One Kernel.run: the kernel and the thread that runs it.
run == <<events, queue, stime, evids, next_evid, num_events, queue_size,
         stop_predicates, pc, cur, exc, last, stopped, invoked, popped,
         cancelCalled, fin, fin_calls>>
\* The Model objects and the simulator they call.
graph == <<models, sim_schedule, raised, nops>>
\* simulate() over a list of parameter bags.
sweep == <<spc, data, dataobjs, kernels, results, sim>>
vars == <<run, graph, sweep>>

\* The latest kernel call made by the user code that is running: what was
\* called and what came back ("id", "event", "None" or "ValueError").
NoCall == [op |-> "none", ret |-> "None"]
Call(op, ret) == [op |-> op, ret |-> ret]

\* ------------------------------------------------------------- _Event

\* _Event.__init__: a fresh event is not removed.
NewEvent(id, t, fn) == [id |-> id, stime |-> t, fn |-> fn, removed |-> FALSE]

\* Faulty __lt__: the id tie-break is left out.
EventLt_noTie(ev, a, b) == ev[a].stime < ev[b].stime

\* Faulty __lt__: the id tie-break is the wrong way round.
EventLt_revTie(ev, a, b) ==
    \/ ev[a].stime < ev[b].stime
    \/ (ev[a].stime = ev[b].stime /\ ev[a].id > ev[b].id)

\* _Event.__lt__ on two event references of the object store ev.
EventLt(ev, a, b) ==
    \/ ev[a].stime < ev[b].stime
    \/ (ev[a].stime = ev[b].stime /\ ev[a].id < ev[b].id)

\* ------------------------------------------------------------- heapq
\* Positions are 0-based as in the Python list; Seq index = position + 1.

RECURSIVE siftdown(_, _, _, _, _)
\* heapq._siftdown: move newitem from pos up towards startpos.
siftdown(ev, heap, startpos, pos, newitem) ==
    IF pos > startpos
    THEN LET parentpos == (pos - 1) \div 2
             parent == heap[parentpos + 1]
         IN  IF EventLt(ev, newitem, parent)
             THEN siftdown(ev, [heap EXCEPT ![pos + 1] = parent],
                           startpos, parentpos, newitem)
             ELSE [heap EXCEPT ![pos + 1] = newitem]
    ELSE [heap EXCEPT ![pos + 1] = newitem]

RECURSIVE siftup(_, _, _, _, _)
\* heapq._siftup: bubble the smaller child up until a leaf is hit, then
\* sift newitem down from there to startpos.
siftup(ev, heap, startpos, pos, newitem) ==
    LET endpos == Len(heap)
        childpos == 2 * pos + 1
        rightpos == childpos + 1
    IN  IF childpos < endpos
        THEN LET c == IF rightpos < endpos
                         /\ ~EventLt(ev, heap[childpos + 1], heap[rightpos + 1])
                      THEN rightpos ELSE childpos
             IN  siftup(ev, [heap EXCEPT ![pos + 1] = heap[c + 1]],
                        startpos, c, newitem)
        ELSE siftdown(ev, [heap EXCEPT ![pos + 1] = newitem],
                      startpos, pos, newitem)

\* heapq.heappush(heap, item)
heappush(ev, heap, item) ==
    LET h == Append(heap, item)
    IN  siftdown(ev, h, 0, Len(h) - 1, item)

\* heapq.heappop(heap) on a non-empty heap: <<returned item, heap after>>
heappop(ev, heap) ==
    LET lastelt == heap[Len(heap)]
        h == SubSeq(heap, 1, Len(heap) - 1)
    IN  IF h # <<>>
        THEN <<h[1], siftup(ev, [h EXCEPT ![1] = lastelt], 0, 0, lastelt)>>
        ELSE <<lastelt, h>>

\* ------------------------------------------------------------- Kernel

\* Faulty empty: the heap list is tested, tombstones included.
empty_heapList == Len(queue) = 0

\* Kernel.empty
empty == queue_size = 0

\* dict without a key: del d[k]
DictDel(d, k) == [x \in (DOMAIN d) \ {k} |-> d[x]]

\* Faulty add_event: the id is drawn before the delay is tested.
add_event_idFirst(delay, handler) ==
    LET id == next_evid
        ev2 == events @@ (id :> NewEvent(id, stime + delay, handler))
    IN  IF delay < 0
        THEN /\ next_evid' = id + 1
             /\ last' = Call("schedule", "ValueError")
             /\ UNCHANGED <<events, queue, stime, evids, num_events,
                            queue_size, stop_predicates>>
        ELSE /\ next_evid' = id + 1
             /\ events' = ev2
             /\ evids' = evids @@ (id :> id)
             /\ queue' = heappush(ev2, queue, id)
             /\ queue_size' = queue_size + 1
             /\ last' = Call("schedule", "id")
             /\ UNCHANGED <<stime, num_events, stop_predicates>>

\* Faulty add_event: the delay is taken as the fire time itself.
add_event_absolute(delay, handler) ==
    LET id == next_evid
        ev2 == events @@ (id :> NewEvent(id, delay, handler))
    IN  IF delay < 0
        THEN /\ last' = Call("schedule", "ValueError")
             /\ UNCHANGED kernel
        ELSE /\ next_evid' = id + 1
             /\ events' = ev2
             /\ evids' = evids @@ (id :> id)
             /\ queue' = heappush(ev2, queue, id)
             /\ queue_size' = queue_size + 1
             /\ last' = Call("schedule", "id")
             /\ UNCHANGED <<stime, num_events, stop_predicates>>

\* Faulty add_event: a negative delay is not rejected.
add_event_noCheck(delay, handler) ==
    LET id == next_evid
        ev2 == events @@ (id :> NewEvent(id, stime + delay, handler))
    IN  /\ next_evid' = id + 1
        /\ events' = ev2
        /\ evids' = evids @@ (id :> id)
        /\ queue' = heappush(ev2, queue, id)
        /\ queue_size' = queue_size + 1
        /\ last' = Call("schedule", "id")
        /\ UNCHANGED <<stime, num_events, stop_predicates>>

\* Kernel.add_event(delay, handler): the kernel's part of the step.
add_event(delay, handler) ==
    IF delay < 0
    THEN /\ last' = Call("schedule", "ValueError")
         /\ UNCHANGED kernel
    ELSE LET id == next_evid
             ev2 == events @@ (id :> NewEvent(id, stime + delay, handler))
         IN  /\ next_evid' = id + 1
             /\ events' = ev2
             /\ evids' = evids @@ (id :> id)
             /\ queue' = heappush(ev2, queue, id)
             /\ queue_size' = queue_size + 1
             /\ last' = Call("schedule", "id")
             /\ UNCHANGED <<stime, num_events, stop_predicates>>

\* Faulty remove_event: the lookup never finds the event.
remove_event_noop(evid) ==
    /\ last' = Call("cancel", "None")
    /\ UNCHANGED kernel

\* Faulty remove_event: the id stays in the index and the tombstone is not
\* looked at, so a second cancel finds the event again.
remove_event_twice(evid) ==
    IF evid \in DOMAIN evids
    THEN /\ events' = [events EXCEPT ![evids[evid]].removed = TRUE]
         /\ queue_size' = queue_size - 1
         /\ last' = Call("cancel", "event")
         /\ UNCHANGED <<queue, stime, evids, next_evid, num_events,
                        stop_predicates>>
    ELSE /\ last' = Call("cancel", "None")
         /\ UNCHANGED kernel

\* Faulty remove_event: the tombstone is set but queue_size is not reduced.
remove_event_nodec(evid) ==
    IF evid \in DOMAIN evids
    THEN /\ evids' = DictDel(evids, evid)
         /\ events' = [events EXCEPT ![evids[evid]].removed = TRUE]
         /\ last' = Call("cancel", "event")
         /\ UNCHANGED <<queue, stime, next_evid, num_events, queue_size,
                        stop_predicates>>
    ELSE /\ last' = Call("cancel", "None")
         /\ UNCHANGED kernel

\* Faulty remove_event: the id is not deleted from the index.
remove_event_nodel(evid) ==
    IF evid \in DOMAIN evids /\ ~events[evids[evid]].removed
    THEN /\ events' = [events EXCEPT ![evids[evid]].removed = TRUE]
         /\ queue_size' = queue_size - 1
         /\ last' = Call("cancel", "event")
         /\ UNCHANGED <<queue, stime, evids, next_evid, num_events,
                        stop_predicates>>
    ELSE /\ last' = Call("cancel", "None")
         /\ UNCHANGED kernel

\* Faulty cancel: the event is looked up among all events ever created,
\* so one that was already popped is tombstoned as well.
remove_event_stale(evid) ==
    IF evid \in DOMAIN events /\ ~events[evid].removed
    THEN /\ events' = [events EXCEPT ![evid].removed = TRUE]
         /\ evids' = DictDel(evids, evid)
         /\ queue_size' = queue_size - 1
         /\ last' = Call("cancel", "event")
         /\ UNCHANGED <<queue, stime, next_evid, num_events,
                        stop_predicates>>
    ELSE /\ last' = Call("cancel", "None")
         /\ UNCHANGED kernel

\* Kernel.remove_event(evid): the kernel's part of the step.
remove_event(evid) ==
    IF evid \in DOMAIN evids
    THEN LET event == evids[evid]
         IN  /\ evids' = DictDel(evids, evid)
             /\ IF ~events[event].removed
                THEN /\ events' = [events EXCEPT ![event].removed = TRUE]
                     /\ queue_size' = queue_size - 1
                     /\ last' = Call("cancel", "event")
                ELSE /\ last' = Call("cancel", "None")
                     /\ UNCHANGED <<events, queue_size>>
             /\ UNCHANGED <<queue, stime, next_evid, num_events,
                            stop_predicates>>
    ELSE /\ last' = Call("cancel", "None")
         /\ UNCHANGED kernel

\* Faulty clock update: the wrong field of the event is assigned.
PoppedTime_id(event) == events[event].id

\* Kernel._next_event: the value assigned to the clock for a live event.
PoppedTime(event) == events[event].stime

\* Faulty predicate: the limit itself already stops the run.
test_stop_nonStrict ==
    \E i \in 1 .. Len(stop_predicates) : stop_predicates[i] <= stime

\* Kernel._test_stop
test_stop ==
    \E i \in 1 .. Len(stop_predicates) : stop_predicates[i] < stime

\* ------------------------------------------------------------- steps

InUserCode == pc \in {"initialize", "init", "handler", "fin"}

\* simulate: kernel.setup(stime_limit), None having been turned into 0.
Setup(stime_limit) ==
    /\ pc = "setup"
    /\ stop_predicates' =
           IF stime_limit > 0
           THEN Append(stop_predicates, stime_limit)
           ELSE stop_predicates
    /\ pc' = "run"
    /\ UNCHANGED <<events, queue, stime, evids, next_evid, num_events,
                   queue_size, cur, exc, last, stopped, invoked, popped,
                   cancelCalled>>
    /\ UNCHANGED <<fin, fin_calls, graph, sweep>>

\* Kernel.run, before the loop: initialize if the model has it, init if given.
RunStart ==
    /\ pc = "run"
    /\ pc' \in {"initialize", "init", "loop"}
    /\ UNCHANGED <<kernel, cur, exc, last, stopped, invoked, popped, cancelCalled>>
    /\ UNCHANGED <<fin, fin_calls, graph, sweep>>

InitializeReturn ==
    /\ pc = "initialize"
    /\ pc' \in {"init", "loop"}
    /\ last' = NoCall
    /\ UNCHANGED <<kernel, cur, exc, stopped, invoked, popped, cancelCalled>>
    /\ UNCHANGED <<fin, fin_calls, graph, sweep>>

InitReturn ==
    /\ pc = "init"
    /\ pc' = "loop"
    /\ last' = NoCall
    /\ UNCHANGED <<kernel, cur, exc, stopped, invoked, popped, cancelCalled>>
    /\ UNCHANGED <<fin, fin_calls, graph, sweep>>

\* Simulator.schedule(delay, handler) called by user code.  The ValueError
\* of a negative delay is either handled by the caller or leaves the run.
Schedule(delay, handler) ==
    /\ InUserCode
    /\ delay < 0 \/ next_evid < MaxEvents
    /\ add_event(delay, handler)
    /\ \/ pc' = pc /\ UNCHANGED exc
       \/ delay < 0 /\ pc' = "aborted" /\ exc' = "ValueError"
    /\ UNCHANGED <<cur, stopped, invoked, popped, cancelCalled>>
    /\ UNCHANGED <<fin, fin_calls, graph, sweep>>

\* Simulator.cancel(evid) called by user code.
Cancel(evid) ==
    /\ InUserCode
    /\ remove_event(evid)
    /\ cancelCalled' =
           IF evid < next_evid /\ \A i \in 1 .. Len(popped) : popped[i] # evid
           THEN cancelCalled \cup {evid}
           ELSE cancelCalled
    /\ UNCHANGED <<pc, cur, exc, stopped, invoked, popped>>
    /\ UNCHANGED <<fin, fin_calls, graph, sweep>>

\* Kernel.run: the test of `while not self.empty`.
LoopTest ==
    /\ pc = "loop"
    /\ pc' = IF empty THEN "endloop" ELSE "next"
    /\ UNCHANGED <<kernel, cur, exc, last, stopped, invoked, popped, cancelCalled>>
    /\ UNCHANGED <<fin, fin_calls, graph, sweep>>

\* Faulty _next_event: the clock is set before the tombstone is looked at.
NextEvent_clockFirst ==
    /\ pc = "next"
    /\ IF queue = <<>>
       THEN /\ pc' = "aborted"
            /\ exc' = "KeyError"
            /\ UNCHANGED <<kernel, cur, popped>>
       ELSE LET r == heappop(events, queue)
                event == r[1]
            IN  /\ queue' = r[2]
                /\ IF ~events[event].removed
                   THEN IF ~(events[event].stime >= stime)
                        THEN /\ pc' = "aborted"
                             /\ exc' = "AssertionError"
                             /\ UNCHANGED <<stime, evids, queue_size, cur,
                                            popped>>
                        ELSE /\ stime' = PoppedTime(event)
                             /\ IF event \in DOMAIN evids
                                THEN /\ evids' = DictDel(evids, event)
                                     /\ queue_size' = queue_size - 1
                                     /\ cur' = event
                                     /\ popped' = Append(popped, event)
                                     /\ pc' = "test"
                                     /\ UNCHANGED exc
                                ELSE /\ pc' = "aborted"
                                     /\ exc' = "KeyError"
                                     /\ UNCHANGED <<evids, queue_size, cur,
                                                    popped>>
                   ELSE /\ stime' = events[event].stime
                        /\ UNCHANGED <<evids, queue_size, cur, popped,
                                       pc, exc>>
                /\ UNCHANGED <<events, next_evid, num_events,
                               stop_predicates>>
    /\ UNCHANGED <<last, stopped, invoked, cancelCalled>>
    /\ UNCHANGED <<fin, fin_calls, graph, sweep>>

\* Kernel._next_event: one iteration of `while self.__queue`, or the
\* KeyError after the loop.
NextEvent ==
    /\ pc = "next"
    /\ IF queue = <<>>
       THEN /\ pc' = "aborted"
            /\ exc' = "KeyError"
            /\ UNCHANGED <<kernel, cur, popped>>
       ELSE LET r == heappop(events, queue)
                event == r[1]
            IN  /\ queue' = r[2]
                /\ IF ~events[event].removed
                   THEN IF ~(events[event].stime >= stime)
                        THEN /\ pc' = "aborted"
                             /\ exc' = "AssertionError"
                             /\ UNCHANGED <<stime, evids, queue_size, cur,
                                            popped>>
                        ELSE /\ stime' = PoppedTime(event)
                             /\ IF event \in DOMAIN evids
                                THEN /\ evids' = DictDel(evids, event)
                                     /\ queue_size' = queue_size - 1
                                     /\ cur' = event
                                     /\ popped' = Append(popped, event)
                                     /\ pc' = "test"
                                     /\ UNCHANGED exc
                                ELSE /\ pc' = "aborted"
                                     /\ exc' = "KeyError"
                                     /\ UNCHANGED <<evids, queue_size, cur,
                                                    popped>>
                   ELSE UNCHANGED <<stime, evids, queue_size, cur, popped,
                                    pc, exc>>
                /\ UNCHANGED <<events, next_evid, num_events,
                               stop_predicates>>
    /\ UNCHANGED <<last, stopped, invoked, cancelCalled>>
    /\ UNCHANGED <<fin, fin_calls, graph, sweep>>

\* Faulty loop body: an event without handler is counted too.
Dispatch_countAll ==
    /\ pc = "test"
    /\ IF ~test_stop
       THEN IF events[cur].fn # "None"
            THEN /\ invoked' = Append(invoked, [id |-> cur, at |-> stime])
                 /\ pc' = "handler"
                 /\ UNCHANGED <<stopped, num_events>>
            ELSE /\ pc' = "loop"
                 /\ num_events' = num_events + 1
                 /\ UNCHANGED <<invoked, stopped>>
       ELSE /\ stopped' = TRUE
            /\ pc' = "endloop"
            /\ UNCHANGED <<invoked, num_events>>
    /\ UNCHANGED <<events, queue, stime, evids, next_evid, queue_size,
                   stop_predicates, cur, exc, last, popped, cancelCalled>>
    /\ UNCHANGED <<fin, fin_calls, graph, sweep>>

\* Faulty loop body: the vetoed event's handler is still run, and counted,
\* before the break.
Dispatch_runVetoed ==
    /\ pc = "test"
    /\ IF ~test_stop
       THEN IF events[cur].fn # "None"
            THEN /\ invoked' = Append(invoked, [id |-> cur, at |-> stime])
                 /\ pc' = "handler"
                 /\ UNCHANGED <<stopped, num_events>>
            ELSE /\ pc' = "loop"
                 /\ UNCHANGED <<invoked, stopped, num_events>>
       ELSE /\ stopped' = TRUE
            /\ pc' = "endloop"
            /\ invoked' = Append(invoked, [id |-> cur, at |-> stime])
            /\ num_events' = num_events + 1
    /\ UNCHANGED <<events, queue, stime, evids, next_evid, queue_size,
                   stop_predicates, cur, exc, last, popped, cancelCalled>>
    /\ UNCHANGED <<fin, fin_calls, graph, sweep>>

\* Faulty loop: an event vetoed by a stop predicate is skipped and the loop
\* goes on to the next one.
Dispatch_noBreak ==
    /\ pc = "test"
    /\ IF ~test_stop
       THEN IF events[cur].fn # "None"
            THEN /\ invoked' = Append(invoked, [id |-> cur, at |-> stime])
                 /\ pc' = "handler"
            ELSE /\ pc' = "loop"
                 /\ UNCHANGED invoked
       ELSE /\ pc' = "loop"
            /\ UNCHANGED invoked
    /\ UNCHANGED <<kernel, cur, exc, last, stopped, popped, cancelCalled>>
    /\ UNCHANGED <<fin, fin_calls, graph, sweep>>

\* Kernel.run: the body of the loop after the pop, up to the handler call.
\* A bound method and a free callable take the same path here: they differ
\* in the trace line and in whether sim is passed, not in the kernel state.
Dispatch ==
    /\ pc = "test"
    /\ IF ~test_stop
       THEN IF events[cur].fn # "None"
            THEN /\ invoked' = Append(invoked, [id |-> cur, at |-> stime])
                 /\ pc' = "handler"
                 /\ UNCHANGED stopped
            ELSE /\ pc' = "loop"
                 /\ UNCHANGED <<invoked, stopped>>
       ELSE /\ stopped' = TRUE
            /\ pc' = "endloop"
            /\ UNCHANGED invoked
    /\ UNCHANGED <<kernel, cur, exc, last, popped, cancelCalled>>
    /\ UNCHANGED <<fin, fin_calls, graph, sweep>>

\* Faulty loop body: the handler returns and the counter is left alone.
HandlerReturn_noCount ==
    /\ pc = "handler"
    /\ pc' = "loop"
    /\ last' = NoCall
    /\ UNCHANGED <<kernel, cur, exc, stopped, invoked, popped, cancelCalled>>
    /\ UNCHANGED <<fin, fin_calls, graph, sweep>>

\* Kernel.run: the handler returned; the event is counted.
HandlerReturn ==
    /\ pc = "handler"
    /\ num_events' = num_events + 1
    /\ pc' = "loop"
    /\ last' = NoCall
    /\ UNCHANGED <<events, queue, stime, evids, next_evid, queue_size,
                   stop_predicates, cur, exc, stopped, invoked, popped,
                   cancelCalled>>
    /\ UNCHANGED <<fin, fin_calls, graph, sweep>>

\* Faulty run: the error of a handler is caught and the loop goes on.
HandlerRaise_swallowed ==
    /\ pc = "handler"
    /\ pc' = "loop"
    /\ exc' = "HandlerError"
    /\ UNCHANGED <<kernel, cur, last, stopped, invoked, popped, cancelCalled>>
    /\ UNCHANGED <<fin, fin_calls, graph, sweep>>

\* The handler raised: the error leaves run.
HandlerRaise ==
    /\ pc = "handler"
    /\ pc' = "aborted"
    /\ exc' = "HandlerError"
    /\ UNCHANGED <<kernel, cur, last, stopped, invoked, popped, cancelCalled>>
    /\ UNCHANGED <<fin, fin_calls, graph, sweep>>

\* Faulty exit: a stop returns from run at once, fin is left out.
RunFin_returnOnStop ==
    /\ pc = "endloop"
    /\ \E f \in {"fin", "None"} :
          /\ fin' = f
          /\ IF f # "None" /\ ~stopped
                THEN pc' = "fin" /\ fin_calls' = fin_calls + 1
                ELSE pc' = "done" /\ UNCHANGED fin_calls
    /\ UNCHANGED <<kernel, cur, exc, last, stopped, invoked, popped, cancelCalled>>
    /\ UNCHANGED <<graph, sweep>>

\* Kernel.run after the loop: fin if given.
RunFin ==
    /\ pc = "endloop"
    /\ \E f \in {"fin", "None"} :
          /\ fin' = f
          /\ IF f # "None"
                THEN pc' = "fin" /\ fin_calls' = fin_calls + 1
                ELSE pc' = "done" /\ UNCHANGED fin_calls
    /\ UNCHANGED <<kernel, cur, exc, last, stopped, invoked, popped, cancelCalled>>
    /\ UNCHANGED <<graph, sweep>>

FinReturn ==
    /\ pc = "fin"
    /\ pc' = "done"
    /\ last' = NoCall
    /\ UNCHANGED <<kernel, cur, exc, stopped, invoked, popped, cancelCalled>>
    /\ UNCHANGED <<fin, fin_calls, graph, sweep>>

\* Kernel.__init__, and simulate about to call setup.
KernelInit ==
    /\ events = <<>>
    /\ queue = <<>>
    /\ stime = 0
    /\ evids = <<>>
    /\ next_evid = 0
    /\ num_events = 0
    /\ queue_size = 0
    /\ stop_predicates = <<>>
    /\ pc = "setup"
    /\ cur = -1
    /\ exc = "none"
    /\ last = NoCall
    /\ stopped = FALSE
    /\ invoked = <<>>
    /\ popped = <<>>
    /\ cancelCalled = {}
    /\ fin = "unread"
    /\ fin_calls = 0

Next ==
    \/ \E l \in Limits : Setup(l)
    \/ RunStart
    \/ InitializeReturn
    \/ InitReturn
    \/ \E d \in Delays, h \in Handlers : Schedule(d, h)
    \/ \E e \in CancelIds : Cancel(e)
    \/ LoopTest
    \/ NextEvent
    \/ Dispatch
    \/ HandlerReturn
    \/ HandlerRaise
    \/ RunFin
    \/ FinReturn

\* ------------------------------------------------------------- models
\* Model and _ModulesManager, driven as the unit tests drive them: models
\* are built on one simulator and their managers are called in any order.
\* Model objects are numbered from 1; None is NoModel.  A value stored in a
\* manager is a tuple of models, a single model being a tuple of one.
NModels == 3
MaxOps == 2
NoModel == 0
Names == {"a", "b"}
ModelIds == 1 .. Len(models)
Tuples == {<<m>> : m \in ModelIds}
              \cup {t \in ModelIds \X ModelIds : t[1] < t[2]}
\* The values given to the children manager of P: P is not its own child.
ChildrenOf(P) == {t \in Tuples : \A i \in 1 .. Len(t) : t[i] # P}

\* Model.__init__: the parent is the one given; both containers are empty.
Model(parent) == [parent |-> parent, children |-> <<>>, modules |-> <<>>]

\* _ModulesManager.remove: del, a KeyError being swallowed.
remove(container, name) == DictDel(container, name)

\* _ModulesManager.add.
add(container, name, module) ==
    LET c == IF name \in DOMAIN container THEN DictDel(container, name)
                                          ELSE container
    IN  (name :> module) @@ c

\* _ModulesManager.update: remove each name, then dict.update.
update(container, kwargs) ==
    LET c == [x \in (DOMAIN container) \ (DOMAIN kwargs) |-> container[x]]
    IN  kwargs @@ c

\* _ModulesManager.modules over a container of tuples: the models held.
modules(container) ==
    UNION {{container[x][i] : i \in 1 .. Len(container[x])} :
              x \in DOMAIN container}

\* Model(sim, parent=p).
NewModel(p) ==
    /\ Len(models) < NModels
    /\ models' = Append(models, Model(p))
    /\ raised' = "none"
    /\ UNCHANGED <<sim_schedule, nops, run, sweep>>

\* P.children.add(name, module).
ChildrenAdd(P, name, module) ==
    /\ nops < MaxOps
    /\ models' = [models EXCEPT ![P].children = add(@, name, module)]
    /\ raised' = "none"
    /\ nops' = nops + 1
    /\ UNCHANGED <<sim_schedule, run, sweep>>

\* P.children.update(kwargs).
ChildrenUpdate(P, kwargs) ==
    /\ nops < MaxOps
    /\ models' = [models EXCEPT ![P].children = update(@, kwargs)]
    /\ raised' = "none"
    /\ nops' = nops + 1
    /\ UNCHANGED <<sim_schedule, run, sweep>>

\* P.children.remove(name).
ChildrenRemove(P, name) ==
    /\ nops < MaxOps
    /\ models' = [models EXCEPT ![P].children = remove(@, name)]
    /\ raised' = "none"
    /\ nops' = nops + 1
    /\ UNCHANGED <<sim_schedule, run, sweep>>

\* A.connections.add(name, B): the peer itself is stored.
ConnectionsAdd(A, name, B) ==
    /\ nops < MaxOps
    /\ models' = [models EXCEPT ![A].modules = add(@, name, B)]
    /\ raised' = "none"
    /\ nops' = nops + 1
    /\ UNCHANGED <<sim_schedule, run, sweep>>

\* A.connections.get(name).send(msg): get returns what was stored, the
\* peer model (KeyError when the name is absent), and a Model has no
\* attribute send.  Nothing reaches the simulator.
Send(A, name) ==
    /\ nops < MaxOps
    /\ raised' = IF name \in DOMAIN models[A].modules
                   THEN "AttributeError" ELSE "KeyError"
    /\ nops' = nops + 1
    /\ UNCHANGED <<models, sim_schedule, run, sweep>>

GraphInit ==
    /\ models = <<>>
    /\ sim_schedule = <<>>
    /\ raised = "none"
    /\ nops = 0

ModelNext ==
    \/ \E p \in ModelIds \cup {NoModel} : NewModel(p)
    \/ \E P \in ModelIds, n \in Names :
          \E m \in ChildrenOf(P) : ChildrenAdd(P, n, m)
    \/ \E P \in ModelIds, n \in Names :
          \E m \in ChildrenOf(P) : ChildrenUpdate(P, [x \in {n} |-> m])
    \/ \E P \in ModelIds :
          \E m \in ChildrenOf(P) : ChildrenUpdate(P, [x \in Names |-> m])
    \/ \E P \in ModelIds, n \in Names : ChildrenRemove(P, n)
    \/ \E A \in ModelIds, n \in Names :
          \E B \in ModelIds \ {A} : ConnectionsAdd(A, n, B)
    \/ \E A \in ModelIds, n \in Names : Send(A, n)

\* ------------------------------------------------------------- sweep
\* simulate(data, params=[p1, .., pn]): one Kernel and one Simulator per
\* bag.  A run is seen here by what it leaves behind: the clock and the
\* counter of its kernel and the state of its model data, which the
\* handlers write.  Kernel and data objects are numbered from 1.
NRuns == 2
MaxHandled == 2
MaxValue == 1
DataArgs == {"type", "instance"}
NoSim == [kernel |-> 0, data |-> 0, params |-> 0]

\* Kernel.__init__, as far as the sweep looks at a kernel.
Kernel == [stime |-> 0, num_events |-> 0]

\* Simulator.__init__: the id of the object that becomes sim.data and the
\* data objects after it.  A type is instantiated; anything else is used
\* as it is (the caller's instance is object 1).
SimulatorData(protodata, objs) ==
    IF protodata = "type"
      THEN <<Len(objs) + 1, Append(objs, 0)>>
      ELSE <<1, objs>>

\* simulate is called; an instance passed as data was built by the caller.
Simulate(d) ==
    /\ spc = "call"
    /\ data' = d
    /\ dataobjs' = IF d = "instance" THEN <<0>> ELSE <<>>
    /\ spc' = "for"
    /\ UNCHANGED <<kernels, results, sim, run, graph>>

\* for a_params in params: kernel = Kernel(); sim = Simulator(kernel, ..).
LoopBody ==
    /\ spc = "for"
    /\ Len(results) < NRuns
    /\ LET d == SimulatorData(data, dataobjs)
       IN  /\ kernels' = Append(kernels, Kernel)
           /\ dataobjs' = d[2]
           /\ sim' = [kernel |-> Len(kernels) + 1, data |-> d[1],
                      params |-> Len(results) + 1]
    /\ spc' = "run"
    /\ UNCHANGED <<data, results, run, graph>>

\* kernel.run(sim, ..) dispatches one event: the clock of this kernel moves
\* to the fire time, the handler writes to sim.data, the event is counted.
RunHandler(delay, value) ==
    /\ spc = "run"
    /\ kernels[sim.kernel].num_events < MaxHandled
    /\ kernels' = [kernels EXCEPT
                     ![sim.kernel].stime = @ + delay,
                     ![sim.kernel].num_events = @ + 1]
    /\ dataobjs' = [dataobjs EXCEPT ![sim.data] = value]
    /\ UNCHANGED <<spc, data, results, sim, run, graph>>

\* kernel.run returned: results.append(sim).
RunReturn ==
    /\ spc = "run"
    /\ results' = Append(results, sim)
    /\ spc' = "for"
    /\ UNCHANGED <<data, dataobjs, kernels, sim, run, graph>>

\* The loop is over: return results.
Return ==
    /\ spc = "for"
    /\ Len(results) = NRuns
    /\ spc' = "returned"
    /\ UNCHANGED <<data, dataobjs, kernels, results, sim, run, graph>>

SweepInit ==
    /\ spc = "call"
    /\ data = "unread"
    /\ dataobjs = <<>>
    /\ kernels = <<>>
    /\ results = <<>>
    /\ sim = NoSim

SweepNext ==
    \/ \E d \in DataArgs : Simulate(d)
    \/ LoopBody
    \/ \E d \in 0 .. MaxDelay, v \in 0 .. MaxValue : RunHandler(d, v)
    \/ RunReturn
    \/ Return

\* ------------------------------------------------------------- specs
Init == KernelInit /\ GraphInit /\ SweepInit

\* One run of the kernel: simulate(data, ..) with a single parameter bag.
Spec == Init /\ [][Next]_vars

\* The same run on an interpreter that keeps executing: each step of the
\* kernel is taken when it is the next one, and user code returns (a
\* handler runs to completion) unless it raises.
Fairness ==
    /\ WF_vars(\E l \in Limits : Setup(l))
    /\ WF_vars(RunStart)
    /\ WF_vars(InitializeReturn)
    /\ WF_vars(InitReturn)
    /\ WF_vars(LoopTest)
    /\ WF_vars(NextEvent)
    /\ WF_vars(Dispatch)
    /\ WF_vars(HandlerReturn)
    /\ WF_vars(RunFin)
    /\ WF_vars(FinReturn)

FairSpec == Spec /\ Fairness

\* The model graph.
ModelSpec == Init /\ [][ModelNext]_vars

\* simulate(data, params=[..]).
SweepSpec == Init /\ [][SweepNext]_vars

\* ------------------------------------------------------------- claims

InvokedIds == {invoked[i].id : i \in 1 .. Len(invoked)}
PoppedIds == {popped[i] : i \in 1 .. Len(popped)}
\* The heap positions that hold an event without tombstone.
LiveInHeap == {i \in 1 .. Len(queue) : ~events[queue[i]].removed}

EntryTimesSorted ==
    \A i, j \in 1 .. Len(invoked) : i < j => invoked[i].at <= invoked[j].at

\* C1: no step of a run decreases kernel.stime, and the stime values seen
\* at successive handler entries are non-decreasing, whatever the user code
\* schedules (delay >= 0) and cancels.
C1_TimeMonotone == [][stime' >= stime /\ EntryTimesSorted']_vars

\* C1 witness: two handlers entered at different times, the second one
\* running after a cancel took effect.
C1_Witness ==
    /\ Len(invoked) >= 2
    /\ invoked[1].at < invoked[2].at
    /\ stime = invoked[2].at
    /\ cancelCalled # {}

\* C2: two live events returned by consecutive pops are in (fire_time, id)
\* order: the earlier pop has the smaller fire-time or, at equal fire-times,
\* the smaller id.
C2_DispatchOrder ==
    \A i \in 1 .. Len(popped) - 1 :
        LET e1 == events[popped[i]]
            e2 == events[popped[i + 1]]
        IN  /\ e1.stime <= e2.stime
            /\ e1.stime = e2.stime => e1.id < e2.id

\* C2 witness: three pops, the first two at the same fire-time, the last one
\* of an event that was scheduled by a handler.
C2_Witness ==
    /\ Len(popped) = 3
    /\ events[popped[1]].stime = events[popped[2]].stime
    /\ events[popped[2]].stime < events[popped[3]].stime
    /\ Len(invoked) >= 1
    /\ popped[3] > popped[2]

\* C3: when the handler of E2 has run, every event E1 scheduled before E2
\* (smaller id) with the same fire-time, not cancelled, has run already.
C3_FifoTieBreak ==
    \A j \in 1 .. Len(invoked) :
        \A e1 \in 0 .. next_evid - 1 :
            ( /\ e1 < invoked[j].id
              /\ events[e1].stime = events[invoked[j].id].stime
              /\ events[e1].fn # "None"
              /\ e1 \notin cancelCalled )
            => \E i \in 1 .. j - 1 : invoked[i].id = e1

\* C3 witness: two handlers have run at the same simulated time, the one
\* scheduled first before the other, and nothing was cancelled.
C3_Witness ==
    /\ Len(invoked) >= 2
    /\ invoked[1].at = invoked[2].at
    /\ invoked[1].id < invoked[2].id
    /\ cancelCalled = {}

\* C4: an event cancelled before it was popped never has its handler
\* invoked.
C4_CancelSound == InvokedIds \cap cancelCalled = {}

\* An id whose cancel finds nothing: never allocated, cancelled before, or
\* popped for dispatch before (the running handler's own event included).
NoOpTarget(e) ==
    \/ e >= next_evid
    \/ e \in cancelCalled
    \/ e \in PoppedIds

\* C5: cancel of an id that was never allocated, is already cancelled or
\* already dispatched raises nothing and changes nothing of the kernel (stime,
\* num_events, queue_size, id-index, heap, tombstones); and after any cancel
\* the id is such an id, so a second cancel of it changes nothing.
C5_CancelIdempotent ==
    [][\A e \in CancelIds :
          Cancel(e) =>
              /\ NoOpTarget(e)'
              /\ NoOpTarget(e) =>
                     /\ last'.ret = "None"
                     /\ UNCHANGED <<kernel, pc, exc>>]_vars

\* C5 witness: a handler's cancel has just found nothing, while one event
\* lies tombstoned in the heap beside a live one and another was dispatched.
C5_Witness ==
    /\ pc = "handler"
    /\ last = Call("cancel", "None")
    /\ cancelCalled # {}
    /\ queue_size = 1
    /\ Len(queue) = 2

\* C6: queue_size is the number of events in the heap that carry no
\* tombstone, so `empty` holds exactly when the heap holds no live event.
C6_QueueAccounting ==
    /\ queue_size = Cardinality(LiveInHeap)
    /\ empty <=> LiveInHeap = {}

\* C6 witness: after a pop the heap holds a tombstoned and a live event.
C6_Witness ==
    /\ popped # <<>>
    /\ Len(queue) = 2
    /\ queue_size = 1

\* C7: an id is a key of the id-index exactly when its event was scheduled,
\* has not been popped for dispatch and carries no tombstone (and the index
\* maps it to the event of that id).
C7_IndexConsistent ==
    \A id \in CancelIds :
        /\ id \in DOMAIN evids <=>
               ( /\ id < next_evid
                 /\ id \notin PoppedIds
                 /\ ~events[id].removed )
        /\ id \in DOMAIN evids => events[evids[id]].id = id

\* C7 witness: one event is indexed, one was popped and one is tombstoned.
C7_Witness ==
    \E a, b, c \in DOMAIN events :
        /\ a \in DOMAIN evids
        /\ b \in PoppedIds
        /\ events[c].removed
        /\ c \notin PoppedIds

\* C8: when run has returned, num_events is the number of handler
\* invocations the loop made.
C8_EventCount == pc = "done" => num_events = Len(invoked)

\* C8 witness: run returned after one handler ran, one event was cancelled
\* and one was vetoed by the stop predicate.
C8_Witness ==
    /\ pc = "done"
    /\ stopped
    /\ num_events = 1
    /\ cancelCalled # {}
    /\ Len(popped) = 2

\* C9: schedule with a negative delay raises ValueError to its caller and
\* leaves the kernel as it was: heap, id-index, queue_size, stime, num_events
\* and the id counter keep their values.
C9_NegativeDelay ==
    [][\A d \in Delays, h \in Handlers :
          (d < 0 /\ Schedule(d, h)) =>
              /\ last'.ret = "ValueError"
              /\ UNCHANGED kernel]_vars

\* C9 witness: a handler has just had its schedule call rejected, with a
\* live event in the queue.
C9_Witness ==
    /\ pc = "handler"
    /\ last = Call("schedule", "ValueError")
    /\ queue_size > 0

\* C10: once the loop was left because a stop predicate held after the pop
\* of E, E's handler has not run, every handler that ran is counted and E is
\* not, and stime is E's fire-time.
C10_StopAfterAdvance ==
    stopped =>
        /\ cur \notin InvokedIds
        /\ num_events = Len(invoked)
        /\ stime = events[cur].stime
        /\ test_stop

\* C10 witness: run returned after a handler ran at an earlier time than
\* the fire-time of the vetoed event, which has a handler.
C10_Witness ==
    /\ stopped
    /\ pc = "done"
    /\ Len(invoked) >= 1
    /\ invoked[Len(invoked)].at < stime
    /\ events[cur].fn # "None"

\* C4 witness: the run is over, a handler cancelled an event with its own
\* fire-time, and a later event still ran.
C4_Witness ==
    /\ pc = "done"
    /\ \E c \in cancelCalled, i \in 1 .. Len(invoked) :
           /\ events[c].stime = invoked[i].at
           /\ c > invoked[i].id
           /\ events[c].fn # "None"
           /\ i < Len(invoked)

\* The i-th popped event has been through the stop test of its iteration.
Decided(i) == i < Len(popped) \/ pc # "test"

\* C11 (time-limit boundary): setup(stime_limit) installs the predicate
\* "stime_limit < stime" when stime_limit > 0 and nothing when it is 0 or
\* omitted.  Under a limit T every popped event with fire time <= T, T
\* itself included, has its handler invoked, and the first popped event
\* with fire time > T is not invoked and ends the loop.  With no predicate
\* the loop is never left by a stop: it ends only with no live event left.
C11_TimeLimitBoundary ==
    [][/\ \A l \in Limits :
             Setup(l) => stop_predicates' = IF l > 0 THEN <<l>> ELSE <<>>
       /\ \A i \in 1 .. Len(popped') :
             LET e == events'[popped'[i]]
             IN  (stop_predicates' # <<>> /\ Decided(i)') =>
                    /\ (e.stime <= stop_predicates'[1] /\ e.fn # "None")
                          => popped'[i] \in InvokedIds'
                    /\ e.stime > stop_predicates'[1]
                          => /\ popped'[i] \notin InvokedIds'
                             /\ i = Len(popped')
                             /\ stopped'
       /\ stop_predicates' = <<>> =>
             /\ ~stopped'
             /\ pc' = "endloop" => LiveInHeap' = {}]_vars

\* An event at exactly the limit ran, and the next one, beyond the limit,
\* was popped, not run, and ended the loop.
C11_Witness ==
    /\ stop_predicates = <<MaxLimit>>
    /\ stopped
    /\ \E i \in 1 .. Len(invoked) : invoked[i].at = MaxLimit
    /\ events[cur].stime > MaxLimit
    /\ cur \notin InvokedIds

\* C12 (stop as global timeout): once a stop predicate has fired no handler
\* is invoked and no event is popped any more in that run; the kernel
\* leaves the events still queued as they are (in the heap, not tombstoned,
\* in the id-index) on the break and up to the call of fin; and fin, if
\* provided, is invoked exactly once before run returns.
C12_StopIsGlobalTimeout ==
    [][stopped' =>
          /\ invoked' = invoked
          /\ popped' = popped
          /\ num_events' = num_events
          /\ (pc # "fin" \/ pc' = "done") =>
                UNCHANGED <<events, queue, evids, queue_size>>
          /\ pc' \in {"fin", "done"} =>
                fin_calls' = IF fin' = "fin" THEN 1 ELSE 0]_vars

\* A stopped run has just entered fin, which has made no call yet, and a
\* live event is still queued and indexed.
C12_Witness ==
    /\ stopped
    /\ pc = "fin"
    /\ last = NoCall
    /\ fin_calls = 1
    /\ LiveInHeap # {}
    /\ \A i \in LiveInHeap : queue[i] \in DOMAIN evids

\* The lifecycle of event e, read from the kernel and the run.
\* Scheduled: in the heap and live.
Scheduled(e) ==
    /\ \E i \in 1 .. Len(queue) : queue[i] = e
    /\ ~events[e].removed
\* Cancelled: tombstoned.
Cancelled(e) == events[e].removed
\* Returned by _next_event, the stop test of its iteration still to come.
InFlight(e) == pc = "test" /\ cur = e
\* Popped, and the stop test that followed ended the loop.
Vetoed(e) == stopped /\ cur = e
\* Dispatched: popped, past the stop test, its handler (if any) invoked.
Dispatched(e) ==
    /\ e \in PoppedIds
    /\ ~InFlight(e)
    /\ ~Vetoed(e)
    /\ events[e].fn # "None" => e \in InvokedIds

\* How many of the lifecycle states in S event e is in.
InHowMany(e, S) ==
    Cardinality({s \in S :
        \/ s = "Scheduled" /\ Scheduled(e)
        \/ s = "InFlight" /\ InFlight(e)
        \/ s = "Dispatched" /\ Dispatched(e)
        \/ s = "Cancelled" /\ Cancelled(e)
        \/ s = "Vetoed" /\ Vetoed(e)})

\* An event is born Scheduled and what it has become it stays.
TerminalStatesStay ==
    /\ \A e \in (DOMAIN events') \ (DOMAIN events) : Scheduled(e)'
    /\ \A e \in DOMAIN events :
          /\ Cancelled(e) => Cancelled(e)'
          /\ Dispatched(e) => Dispatched(e)'
          /\ Vetoed(e) => Vetoed(e)'

\* C13 as stated (event state machine): an event is Scheduled, then either
\* Dispatched or Cancelled, never both and never one after the other, and
\* it leaves Scheduled in no other way: outside the iteration that pops it,
\* an event that is not queued and live was dispatched or was cancelled.
C13_DispatchedOrCancelled ==
    [][/\ TerminalStatesStay
       /\ \A e \in DOMAIN events' :
             InHowMany(e, {"Scheduled", "InFlight", "Dispatched",
                           "Cancelled"})' = 1]_vars

\* C13 (event state machine, amended): as above, with one more way out of
\* Scheduled: the event popped in the iteration whose stop test ends the
\* loop is out of the heap and of the id-index, and is neither dispatched
\* nor cancelled.
C13_EventStateMachine ==
    [][/\ TerminalStatesStay
       /\ \A e \in DOMAIN events' :
             /\ InHowMany(e, {"Scheduled", "InFlight", "Dispatched",
                              "Cancelled", "Vetoed"})' = 1
             /\ (Cancelled(e)' \/ Vetoed(e)') => e \notin InvokedIds'
             /\ Scheduled(e)' <=> e \in DOMAIN evids']_vars

\* One event of each kind: dispatched, cancelled, vetoed.
C13_Witness ==
    \E d, c, v \in DOMAIN events :
        /\ Dispatched(d) /\ d \in InvokedIds
        /\ Cancelled(c) /\ c \in cancelCalled
        /\ Vetoed(v)

\* C14 (fire-time computation): schedule(delay, h) called at stime = T
\* creates an event with fire time T + delay and handler h; a fire time
\* never changes; a handler is entered with stime equal to the fire time
\* of its event; and handlers are entered in fire-time order, so that an
\* event scheduled with delay 0 at T runs at T, after every event with a
\* smaller fire time and before any with a greater one.
C14_FireTime ==
    [][/\ \A d \in Delays, h \in Handlers :
             (d >= 0 /\ Schedule(d, h)) =>
                 /\ next_evid \in DOMAIN events'
                 /\ events'[next_evid].stime = stime + d
                 /\ events'[next_evid].fn = h
       /\ \A e \in DOMAIN events : events'[e].stime = events[e].stime
       /\ pc' = "handler" => stime' = events'[cur'].stime
       /\ \A i \in 1 .. Len(invoked') :
             /\ invoked'[i].at = events'[invoked'[i].id].stime
             /\ \A j \in 1 .. Len(invoked') :
                   i < j => events'[invoked'[i].id].stime
                               <= events'[invoked'[j].id].stime]_vars

\* Three handlers ran, the last two at twice the largest delay: a fire time
\* that only a schedule call made from a handler, at T > 0, can produce.
C14_Witness ==
    /\ Len(invoked) = 3
    /\ invoked[1].at = MaxDelay
    /\ invoked[2].at = 2 * MaxDelay
    /\ invoked[3].at = 2 * MaxDelay
    /\ invoked[2].id < invoked[3].id

\* The models held in P's children, alone or inside a tuple.
Held(P) == modules(models[P].children)

\* C15 as stated (parent/child consistency): after any operation of a
\* children manager (add by name, bulk update, replacement, remove) every
\* model held in P's children has its parent link equal to P, and a model
\* the operation took out of P's children has its parent link cleared.
C15_ParentChildConsistent ==
    [][\A P \in ModelIds', C \in ModelIds' :
          /\ C \in Held(P)' => models'[C].parent = P
          /\ (P \in ModelIds /\ C \in Held(P) /\ C \notin Held(P)')
                => models'[C].parent = NoModel]_vars

\* C16 as stated (connection send): sending a message over the connection
\* that A holds under name n makes exactly one schedule call on A's
\* simulator, schedule(d, B.handle_message, args=(msg,), kwargs={'sender':
\* A}), where B is the peer stored under n and d the delay of the
\* connection, 0 when none was set; and nothing is raised.
C16_SendSchedulesOnce ==
    [][\A A \in ModelIds, n \in Names :
          (n \in DOMAIN models[A].modules /\ Send(A, n)) =>
              /\ sim_schedule' =
                    Append(sim_schedule,
                           [delay |-> 0,
                            handler |-> <<models[A].modules[n],
                                          "handle_message">>,
                            sender |-> A])
              /\ raised' = "none"]_vars

\* What a Simulator gives access to: the state of its kernel and of its
\* model data.
KernelOf(s) == kernels[s.kernel]
DataOf(s) == dataobjs[s.data]

\* simulate returns one context per bag, in the order of the bags, each
\* with a kernel of its own that starts new and that no later run changes.
OwnKernels ==
    /\ spc' = "returned" => Len(results') = NRuns
    /\ \A i \in 1 .. Len(results') : results'[i].params = i
    /\ \A i \in 1 .. Len(results'), j \in 1 .. Len(results') :
          i # j => results'[i].kernel # results'[j].kernel
    /\ LoopBody => KernelOf(sim)' = Kernel
    /\ \A i \in 1 .. Len(results) : KernelOf(results[i])' = KernelOf(results[i])

\* Each context has model data of its own, which starts as built and which
\* no later run changes.
OwnData ==
    /\ \A i \in 1 .. Len(results'), j \in 1 .. Len(results') :
          i # j => results'[i].data # results'[j].data
    /\ LoopBody => DataOf(sim)' = 0
    /\ \A i \in 1 .. Len(results) : DataOf(results[i])' = DataOf(results[i])

\* C17 as stated (run isolation in a parameter sweep): simulate(data,
\* params=[p1, .., pn]) makes one run per bag and returns the n contexts in
\* order, each with its own kernel and its own model graph; nothing of run
\* i is observable in run j, whether data is a type or an instance.
C17_RunsIsolated == [][OwnKernels /\ OwnData]_vars

\* C18 (handler error propagation): an error raised in a handler, by the
\* handler itself or by a kernel call it makes, leaves run as it is and at
\* once: the kernel is left as the handler left it, the failed event is out
\* of the queue and of the id-index and is not counted, and after the error
\* run takes no further step (no pop, no dispatch, no fin).
C18_HandlerErrorPropagates ==
    [][/\ exc # "none" => FALSE
       /\ (pc = "handler" /\ exc' # "none") =>
             /\ pc' = "aborted"
             /\ exc' \in {"HandlerError", "ValueError"}
             /\ UNCHANGED <<kernel, cur, invoked, popped, fin_calls>>
             /\ cur \notin DOMAIN evids
             /\ \A i \in 1 .. Len(queue) : queue[i] # cur]_vars

\* A handler raised while live events were still queued.
C18_Witness ==
    /\ pc = "aborted"
    /\ exc = "HandlerError"
    /\ LiveInHeap # {}
    /\ cur \in InvokedIds
    /\ num_events < Len(invoked)
    /\ fin_calls = 0

\* The loop of run is left in two ways only: by its test, exactly when no
\* live event is queued, and by the break, exactly when a stop predicate
\* holds right after a pop.  After that nothing is popped or dispatched.
LoopEnds ==
    /\ pc = "loop" => (pc' = "endloop" <=> LiveInHeap = {})
    /\ pc = "test" => (pc' = "endloop" <=> test_stop)
    /\ pc' = "endloop" => pc \in {"loop", "test"}
    /\ pc \in {"endloop", "fin", "done"} =>
          UNCHANGED <<popped, invoked, stime, num_events>>

\* A run that pops nothing dispatches nothing and leaves the clock and the
\* counter at 0.
EmptyRun ==
    popped = <<>> => stime = 0 /\ num_events = 0 /\ invoked = <<>>

\* C19 (termination): the dispatch loop ends exactly when no live event
\* remains or a stop predicate holds right after a pop; a run whose
\* initialize and init schedule nothing pops nothing and returns with
\* stime = 0 and num_events = 0; and, events being finitely many, every
\* run comes to its end: it returns, or an error leaves it.
C19_Termination ==
    /\ [][LoopEnds /\ EmptyRun']_vars
    /\ <>(pc \in {"done", "aborted"})

\* A run in which nothing was ever scheduled called fin and returned.
C19_Witness ==
    /\ pc = "done"
    /\ next_evid = 0
    /\ fin_calls = 1
    /\ stime = 0
    /\ num_events = 0

\* C20 (EmptyQueue unreachable from run): whenever queue_size > 0 a live
\* event is in the heap, so the _next_event call that run makes after the
\* loop test finds one, and run never leaves with the KeyError of a pop
\* from an empty queue.
C20_NoEmptyQueueError ==
    /\ queue_size > 0 => LiveInHeap # {}
    /\ pc = "next" => LiveInHeap # {}
    /\ exc # "KeyError"

\* _next_event is about to pop a tombstone, a live event waiting behind it.
C20_Witness ==
    /\ pc = "next"
    /\ events[queue[1]].removed
    /\ Len(queue) - Cardinality(LiveInHeap) >= 2
    /\ LiveInHeap # {}

\* C21 (the assertion of _next_event never fails): every live event in the
\* heap has a fire time that is not earlier than stime, so the event that
\* _next_event pops passes `assert event.stime >= self.__stime` and run
\* never leaves with an AssertionError.
C21_AssertionHolds ==
    /\ \A i \in LiveInHeap : events[queue[i]].stime >= stime
    /\ exc # "AssertionError"

\* _next_event is about to pop a live event whose fire time is the current
\* time, after the clock has moved: the assertion holds with equality.
C21_Witness ==
    /\ pc = "next"
    /\ stime > 0
    /\ queue # <<>>
    /\ ~events[queue[1]].removed
    /\ events[queue[1]].stime = stime

\* C22 (cancelled events never move the clock): the iteration of
\* _next_event that pops a tombstoned entry takes it off the heap and
\* leaves stime, num_events, queue_size and the id-index as they are; so
\* stime is 0 until a live event is popped and from then on the fire time
\* of the live event popped last.
C22_TombstonesKeepClock ==
    [][/\ (pc = "next" /\ queue # <<>>
             /\ events[heappop(events, queue)[1]].removed) =>
                /\ UNCHANGED <<stime, num_events, queue_size, evids>>
                /\ queue' = heappop(events, queue)[2]
       /\ stime' = IF popped' = <<>>
                     THEN 0
                     ELSE events'[popped'[Len(popped')]].stime]_vars

\* A live event has been popped, and _next_event is about to discard a
\* tombstone with a later fire time, a live event waiting behind it.
C22_Witness ==
    /\ pc = "next"
    /\ popped # <<>>
    /\ queue # <<>>
    /\ events[queue[1]].removed
    /\ events[queue[1]].stime > stime
    /\ LiveInHeap # {}

\* The run is between two iterations of its loop, or past the loop.
BetweenIterations == pc \in {"loop", "next", "endloop", "fin", "done"}

\* The popped events that no stop predicate vetoed, by position in popped.
PassedStop == {i \in 1 .. Len(popped) : ~(stopped /\ i = Len(popped))}

\* C23 as stated (counter step per dispatch): every iteration that pops a
\* live event with no stop predicate holding invokes the event's handler
\* and adds exactly one to num_events, whatever handler argument schedule
\* was given, the default included: between iterations every such event
\* has been invoked and num_events is their number.
C23_EveryDispatchCounted ==
    BetweenIterations =>
        /\ \A i \in PassedStop : popped[i] \in InvokedIds
        /\ num_events = Cardinality(PassedStop)

\* C23 (counter step per dispatch, amended): an iteration that pops a live
\* event that has a handler, no stop predicate holding, invokes that
\* handler and adds exactly one to num_events when it returns; an event
\* scheduled with the default handler argument (None) is popped and moves
\* the clock, but nothing is invoked and it is not counted.
C23_CounterStepPerDispatch ==
    [][/\ (pc = "test" /\ ~test_stop /\ events[cur].fn # "None") =>
             /\ invoked' = Append(invoked, [id |-> cur, at |-> stime])
             /\ pc' = "handler"
       /\ (pc = "handler" /\ pc' = "loop") => num_events' = num_events + 1
       /\ (pc = "test" /\ ~test_stop /\ events[cur].fn = "None") =>
             /\ pc' = "loop"
             /\ UNCHANGED <<invoked, num_events>>
       /\ ~(pc = "handler" /\ pc' = "loop") => num_events' = num_events
       /\ BetweenIterations' =>
             LET counted == {i \in PassedStop' :
                                events'[popped'[i]].fn # "None"}
             IN  /\ num_events' = Cardinality(counted)
                 /\ \A i \in PassedStop' :
                       i \in counted <=> popped'[i] \in InvokedIds']_vars

\* Between two iterations: an event with a handler and one without were
\* both popped and passed the stop test, and one of them was counted.
C23_Witness ==
    /\ pc = "loop"
    /\ Len(popped) = 2
    /\ ~stopped
    /\ num_events = 1
    /\ events[popped[1]].fn = "None"
    /\ events[popped[2]].fn = "fn"

====
